---------------------------- MODULE Spec2Model ----------------------------
(***************************************************************************)
(* A model of the Podcastfy HTTP wrapper (src/app/main.py,                 *)
(* src/app/models.py).                                                     *)
(*                                                                         *)
(* Three specifications share the module:                                  *)
(*   Spec           the server: requests, the API-key dependency, the four *)
(*                  handlers, the process environment and the responses;   *)
(*   SpecReader     read_file_content applied to the bytes of a file;      *)
(*   SpecNormalize  UserPodcastRequest.to_generate_podcast_request.        *)
(***************************************************************************)
EXTENDS Integers, Sequences, FiniteSets, TLC

VARIABLES
    pc,              \* per request: where it is in the server
    req,             \* per request: method target and query parameters
    body,            \* per request: the parsed UserPodcastRequest, once the handler has it
    env,             \* os.environ, the three credential slots
    engine_call,     \* per request: the arguments generate_podcast was called with
    response,        \* per request: the HTTP response that leaves the server
    entered,         \* per request: whether a handler body was entered
    observed,        \* per request: what the handler found (engine result, file, reader)
    writer,          \* per slot of os.environ: the request that wrote it last (0: none)
    fileBytes,       \* SpecReader: the bytes stored in the file
    readResult,      \* SpecReader: what read_file_content did
    userRequest,     \* SpecNormalize: a valid UserPodcastRequest
    generateRequest  \* SpecNormalize: what to_generate_podcast_request returned

serverVars == <<pc, req, body, env, engine_call, response, entered, observed, writer>>
readerVars == <<fileBytes, readResult>>
normalizeVars == <<userRequest, generateRequest>>
vars == <<pc, req, body, env, engine_call, response, entered, observed, writer,
          fileBytes, readResult, userRequest, generateRequest>>

----------------------------------------------------------------------------
(* Bounds *)

\* Requests a run of the server sees.
NumReq == 2
\* Longest file content, in bytes, given to read_file_content.
MaxLen == 3

Req == 1..NumReq

----------------------------------------------------------------------------
(* Values *)

API_KEY == "tZmH2qv4PwjbXl0Ks6D8YrE3nRdCzT5oBfGaIuVxL9Jy"
\* The query parameter is absent: APIKeyQuery(auto_error=False) yields None.
NoKey == "<None>"
\* The keys clients send: none, the key, the key with its last letter in upper case.
ApiKeys == {NoKey, API_KEY, "tZmH2qv4PwjbXl0Ks6D8YrE3nRdCzT5oBfGaIuVxL9JY"}

Endpoints == {"/generate-podcast", "/generate-transcript", "/audio", "/health"}

\* A slot of os.environ that holds nothing.
Unset == "<unset>"
Slots == {"GEMINI_API_KEY", "OPENAI_API_KEY", "ELEVENLABS_API_KEY"}

NoRequest == [endpoint |-> "<none>", api_key |-> NoKey]
NoBody == [kind |-> "none"]
NoCall == [kind |-> "none"]
NoResponse ==
    [status |-> 0, kind |-> "none", detail |-> "", www_authenticate |-> "",
     disposition |-> "", media_type |-> "", transcript |-> <<>>, health |-> ""]
NothingObserved == [engine |-> "n/a", exists |-> "n/a", reader |-> "n/a"]

----------------------------------------------------------------------------
(* read_file_content: bytes are 0..255, text is a sequence of code points *)

\* Byte values the files of the model are made of: LF, CR, "A", continuation
\* bytes (0x80 is the euro sign and 0x81 is undefined in cp1252), two-, three-
\* and four-byte UTF-8 leads (0xE0 and 0xED restrict their second byte), 0xFF.
ByteSample == {10, 13, 65, 128, 129, 130, 160, 195, 224, 226, 237, 240, 255}

RECURSIVE SeqsUpTo(_, _)
SeqsUpTo(S, n) ==
    IF n = 0 THEN {<<>>}
    ELSE LET shorter == SeqsUpTo(S, n - 1)
         IN shorter \cup {Append(s, x) : s \in {t \in shorter : Len(t) = n - 1}, x \in S}

FileContents == SeqsUpTo(ByteSample, MaxLen)

\* The list with a legacy encoding ahead of UTF-8.
encodingsLegacyFirst == <<"cp1252", "utf-8", "iso-8859-1", "latin1">>

encodings == <<"utf-8", "cp1252", "iso-8859-1", "latin1">>

NoDecoding == [ok |-> FALSE, text |-> <<>>]

\* How many continuation bytes the lead byte b announces; -1: b is no lead byte.
Utf8Need(b) ==
    IF b < 128 THEN 0
    ELSE IF b >= 194 /\ b <= 223 THEN 1
    ELSE IF b >= 224 /\ b <= 239 THEN 2
    ELSE IF b >= 240 /\ b <= 244 THEN 3
    ELSE -1

\* The second byte's range: no overlong forms, no surrogates, nothing past U+10FFFF.
Utf8SecondLo(b) == IF b = 224 THEN 160 ELSE IF b = 240 THEN 144 ELSE 128
Utf8SecondHi(b) == IF b = 237 THEN 159 ELSE IF b = 244 THEN 143 ELSE 191

Utf8Cont(c) == c >= 128 /\ c <= 191

RECURSIVE Utf8From(_, _)
Utf8From(bs, i) ==
    IF i > Len(bs) THEN [ok |-> TRUE, text |-> <<>>]
    ELSE LET b == bs[i]
             n == Utf8Need(b)
         IN IF n = -1 \/ i + n > Len(bs) THEN NoDecoding
            ELSE IF n >= 1 /\ ~(bs[i + 1] >= Utf8SecondLo(b) /\ bs[i + 1] <= Utf8SecondHi(b))
                 THEN NoDecoding
            ELSE IF n >= 2 /\ ~Utf8Cont(bs[i + 2]) THEN NoDecoding
            ELSE IF n >= 3 /\ ~Utf8Cont(bs[i + 3]) THEN NoDecoding
            ELSE LET cp == CASE n = 0 -> b
                             [] n = 1 -> (b - 192) * 64 + (bs[i + 1] - 128)
                             [] n = 2 -> (b - 224) * 4096 + (bs[i + 1] - 128) * 64
                                         + (bs[i + 2] - 128)
                             [] n = 3 -> (b - 240) * 262144 + (bs[i + 1] - 128) * 4096
                                         + (bs[i + 2] - 128) * 64 + (bs[i + 3] - 128)
                     rest == Utf8From(bs, i + n + 1)
                 IN IF rest.ok THEN [ok |-> TRUE, text |-> <<cp>> \o rest.text]
                    ELSE NoDecoding

DecodeUtf8(bs) == Utf8From(bs, 1)

\* cp1252 for the bytes 0x80..0x9F; -1: the byte is undefined and decoding fails.
Cp1252High ==
    <<8364, -1, 8218, 402, 8222, 8230, 8224, 8225, 710, 8240, 352, 8249, 338, -1, 381, -1,
      -1, 8216, 8217, 8220, 8221, 8226, 8211, 8212, 732, 8482, 353, 8250, 339, -1, 382, 376>>

Cp1252Char(b) == IF b >= 128 /\ b <= 159 THEN Cp1252High[b - 127] ELSE b

DecodeCp1252(bs) ==
    IF \E i \in 1..Len(bs) : Cp1252Char(bs[i]) = -1 THEN NoDecoding
    ELSE [ok |-> TRUE, text |-> [i \in 1..Len(bs) |-> Cp1252Char(bs[i])]]

\* iso-8859-1, and latin1, its alias: every byte is its own code point.
DecodeLatin1(bs) == [ok |-> TRUE, text |-> bs]

Decode(encoding, bs) ==
    CASE encoding = "utf-8" -> DecodeUtf8(bs)
      [] encoding = "cp1252" -> DecodeCp1252(bs)
      [] encoding = "iso-8859-1" -> DecodeLatin1(bs)
      [] encoding = "latin1" -> DecodeLatin1(bs)

\* open(path, 'r') reads with universal newlines: "\r\n" and a lone "\r" are
\* read as "\n".
RECURSIVE UniversalNewlines(_)
UniversalNewlines(text) ==
    IF text = <<>> THEN <<>>
    ELSE IF text[1] = 13
         THEN IF Len(text) >= 2 /\ text[2] = 10
              THEN <<10>> \o UniversalNewlines(SubSeq(text, 3, Len(text)))
              ELSE <<10>> \o UniversalNewlines(Tail(text))
         ELSE <<text[1]>> \o UniversalNewlines(Tail(text))

TextModeRead(encoding, bs) ==
    LET d == Decode(encoding, bs)
    IN IF d.ok THEN [ok |-> TRUE, text |-> UniversalNewlines(d.text)] ELSE NoDecoding

\* The loop over the encodings, from the k-th on. The statement after the loop
\* builds UnicodeDecodeError from one argument where the type takes five, so
\* what it raises is TypeError.
RECURSIVE TryEncodings(_, _)
TryEncodings(bs, k) ==
    IF k > Len(encodings)
    THEN [kind |-> "raise", exc |-> "TypeError", text |-> <<>>]
    ELSE LET r == TextModeRead(encodings[k], bs)
         IN IF r.ok THEN [kind |-> "return", exc |-> "", text |-> r.text]
            ELSE TryEncodings(bs, k + 1)

read_file_content(bs) == TryEncodings(bs, 1)

NotRead == [kind |-> "none", exc |-> "", text |-> <<>>]

----------------------------------------------------------------------------
(* UserPodcastRequest and to_generate_podcast_request *)

\* Python's None.
None == "None"

Credentials ==
    {[google_key |-> "g1", openai_key |-> "o1", elevenlabs_key |-> "e1"],
     [google_key |-> "g2", openai_key |-> "o2", elevenlabs_key |-> "e2"],
     [google_key |-> "g2", openai_key |-> "o2", elevenlabs_key |-> ""]}

\* creativity is a float; the model counts it in tenths.
Creativities == {3, 10}

StringLists(tag) == {<<>>, <<tag, tag \o "'">>}

\* Every valid UserPodcastRequest over two values a field.
UserPodcastRequests ==
    [stream_output : BOOLEAN,
     google_key : {"g1"}, openai_key : {"o1"}, elevenlabs_key : {"e1"},
     urls : StringLists("url"),
     text : {"", "text"},
     name : {"name", "tagline"},
     tagline : {"tagline", "name"},
     creativity : Creativities,
     conversation_style : StringLists("style"),
     roles_person1 : {"role1", "role2"},
     roles_person2 : {"role2", "role1"},
     dialogue_structure : StringLists("structure"),
     tts_model : {"openai", "elevenlabs"},
     is_long_form : BOOLEAN,
     engagement_techniques : StringLists("technique"),
     user_instructions : {"", "instructions"},
     output_language : {"German", "English"},
     voices : [question : {"alloy", "echo"}, answer : {"echo"}]]

ConversationConfig(roles_person1, roles_person2, podcast_name, podcast_tagline, creativity, user_instructions, output_language, text_to_speech) ==
    [roles_person1 |-> roles_person1,
     roles_person2 |-> roles_person2,
     podcast_name |-> podcast_name,
     podcast_tagline |-> podcast_tagline,
     creativity |-> creativity,
     user_instructions |-> user_instructions,
     text_to_speech |-> text_to_speech,
     output_language |-> output_language]

\* The fields the caller does not pass keep the defaults of the class.
GeneratePodcastRequest(urls, text, tts_model, longform, conversation_config) ==
    [text |-> text,
     urls |-> urls,
     image_paths |-> None,
     tts_model |-> tts_model,
     conversation_config |-> conversation_config,
     longform |-> longform,
     output_language |-> "German"]

\* The conversion with the podcast's name and tagline exchanged.
to_generate_podcast_request_swapped(self) ==
    GeneratePodcastRequest(
        self.urls,
        self.text,
        self.tts_model,
        self.is_long_form,
        ConversationConfig(
            self.roles_person1,
            self.roles_person2,
            self.tagline,
            self.name,
            self.creativity,
            self.user_instructions,
            self.output_language,
            [voices |-> [question |-> self.voices.question, answer |-> self.voices.answer],
             engagement_techniques |-> self.engagement_techniques,
             conversation_style |-> self.conversation_style,
             dialogue_structure |-> self.dialogue_structure,
             output_language |-> self.output_language]))

to_generate_podcast_request(self) ==
    GeneratePodcastRequest(
        self.urls,
        self.text,
        self.tts_model,
        self.is_long_form,
        ConversationConfig(
            self.roles_person1,
            self.roles_person2,
            self.name,
            self.tagline,
            self.creativity,
            self.user_instructions,
            self.output_language,
            [voices |-> [question |-> self.voices.question, answer |-> self.voices.answer],
             engagement_techniques |-> self.engagement_techniques,
             conversation_style |-> self.conversation_style,
             dialogue_structure |-> self.dialogue_structure,
             output_language |-> self.output_language]))

NotNormalized == [kind |-> "none"]

----------------------------------------------------------------------------
(* Exceptions and responses *)

HTTPException(status_code, detail, www_authenticate) ==
    [type |-> "HTTPException", status |-> status_code, detail |-> detail,
     www_authenticate |-> www_authenticate]

\* Any other exception: its type and its message.
PyException(type, message) ==
    [type |-> type, status |-> 0, detail |-> message, www_authenticate |-> ""]

EngineErrorText == "engine failed"

ExcMessage(type) ==
    CASE type = "TypeError" -> "function takes exactly 5 arguments (1 given)"
      [] type = "OSError" -> "[Errno 13] Permission denied"
      [] type = "UnicodeDecodeError" -> "'utf-8' codec can't decode byte 0x81"
      [] OTHER -> EngineErrorText

\* str(e). For an HTTPException it depends on the installed framework: newer
\* releases render "<status>: <detail>", older ones, given keyword arguments
\* only, the empty string. Both are outcomes.
StrOfException(e) ==
    IF e.type = "HTTPException"
    THEN {ToString(e.status) \o ": " \o e.detail, ""}
    ELSE {e.detail}

\* The response the framework sends for an HTTPException that leaves a handler
\* or a dependency.
ErrorResponse(e) ==
    [NoResponse EXCEPT !.status = e.status, !.kind = "error", !.detail = e.detail,
                       !.www_authenticate = e.www_authenticate]

\* FileResponse's content_disposition_type defaults to "attachment".
FileResponse(media_type, content_disposition_type) ==
    [NoResponse EXCEPT !.status = 200, !.kind = "file", !.media_type = media_type,
                       !.disposition = content_disposition_type]

TranscriptResponse(content) ==
    [NoResponse EXCEPT !.status = 200, !.kind = "json", !.transcript = content]

HealthResponse ==
    [NoResponse EXCEPT !.status = 200, !.kind = "json", !.health = "healthy"]

\* What a try block did: returned a response, or raised.
Return(resp) == [kind |-> "return", response |-> resp, exc |-> PyException("", "")]
Raise(e) == [kind |-> "raise", response |-> NoResponse, exc |-> e]

\* The handlers' enclosing "except Exception as e: raise HTTPException(500, str(e))":
\* the responses that can leave the handler. HTTPException is an Exception, so
\* the clause catches the handler's own 404 and 500 too.
ExceptException(result) ==
    IF result.kind = "return" THEN {result.response}
    ELSE {ErrorResponse(HTTPException(500, m, "")) : m \in StrOfException(result.exc)}

----------------------------------------------------------------------------
(* The API-key dependency *)

\* The check that only asks for a key to be there.
InvalidApiKeyWhenMissing(api_key) == api_key = NoKey

InvalidApiKey(api_key) == api_key # API_KEY

----------------------------------------------------------------------------
(* The handlers' steps as functions *)

\* The JSON bodies clients send: the credentials, and stream_output given or not.
JsonBodies ==
    {[credentials |-> c, stream_output |-> so] :
        c \in Credentials, so \in {"true", "false", "<omitted>"}}

\* pydantic's parse of a body: stream_output defaults to False.
ParseUserPodcastRequest(json) ==
    [stream_output |-> (json.stream_output = "true"),
     google_key |-> json.credentials.google_key,
     openai_key |-> json.credentials.openai_key,
     elevenlabs_key |-> json.credentials.elevenlabs_key,
     urls |-> <<"url">>,
     text |-> "text",
     name |-> "name",
     tagline |-> "tagline",
     creativity |-> 10,
     conversation_style |-> <<"style">>,
     roles_person1 |-> "role1",
     roles_person2 |-> "role2",
     dialogue_structure |-> <<"structure">>,
     tts_model |-> "openai",
     is_long_form |-> FALSE,
     engagement_techniques |-> <<"technique">>,
     user_instructions |-> "instructions",
     output_language |-> "German",
     voices |-> [question |-> "alloy", answer |-> "echo"]]

\* "if request.elevenlabs_key:" is true of a non-empty string.
SetApiKeysPodcast(environ, request) ==
    [environ EXCEPT !["GEMINI_API_KEY"] = request.google_key,
                    !["OPENAI_API_KEY"] = request.openai_key,
                    !["ELEVENLABS_API_KEY"] =
                        IF request.elevenlabs_key # "" THEN request.elevenlabs_key ELSE @]

\* generate_transcript's writes with generate_podcast_file's condition on the third.
SetApiKeysTranscriptSkipping(environ, request) ==
    [environ EXCEPT !["GEMINI_API_KEY"] = request.google_key,
                    !["OPENAI_API_KEY"] = request.openai_key,
                    !["ELEVENLABS_API_KEY"] =
                        IF request.elevenlabs_key # "" THEN request.elevenlabs_key ELSE @]

SetApiKeysTranscript(environ, request) ==
    [environ EXCEPT !["GEMINI_API_KEY"] = request.google_key,
                    !["OPENAI_API_KEY"] = request.openai_key,
                    !["ELEVENLABS_API_KEY"] = request.elevenlabs_key]

\* The arguments of generate_podcast.
EngineCall(generate_request, transcript_only) ==
    [kind |-> "call",
     text |-> generate_request.text,
     urls |-> generate_request.urls,
     image_paths |-> generate_request.image_paths,
     tts_model |-> generate_request.tts_model,
     conversation_config |-> generate_request.conversation_config,
     longform |-> generate_request.longform,
     transcript_only |-> transcript_only]

\* The two dispositions exchanged.
ContentDispositionTypeSwapped(stream_output) ==
    IF stream_output THEN "attachment" ELSE "inline"

ContentDispositionType(stream_output) == IF stream_output THEN "inline" ELSE "attachment"

\* generate_podcast_file from the engine's return on, inside the try block.
\* found: what the engine and os.path.exists answered.
PodcastTryBody(request, found) ==
    IF found.engine = "raised" THEN Raise(PyException("Exception", EngineErrorText))
    ELSE IF found.exists = "no"
         THEN Raise(HTTPException(404, "Generated audio file not found", ""))
    ELSE Return(FileResponse("audio/mpeg", ContentDispositionType(request.stream_output)))

\* generate_transcript's inner try block around read_file_content.
ReadTranscript(read) ==
    IF read.kind = "return" THEN Return(TranscriptResponse(read.text))
    ELSE IF read.exc = "UnicodeDecodeError"
         THEN Raise(HTTPException(500, "Error reading transcript: Unsupported file encoding", ""))
    ELSE Raise(HTTPException(500, "Error reading transcript: " \o ExcMessage(read.exc), ""))

\* generate_transcript from the engine's return on, inside the outer try block.
TranscriptTryBody(found, read) ==
    IF found.engine = "raised" THEN Raise(PyException("Exception", EngineErrorText))
    ELSE IF found.exists = "no"
         THEN Raise(HTTPException(404, "Generated transcript not found", ""))
    ELSE ReadTranscript(read)

\* download_file's try block.
DownloadTryBody(found) ==
    IF found.exists = "no" THEN Raise(HTTPException(404, "File not found", ""))
    ELSE Return(FileResponse("audio/mpeg", "attachment"))

\* What the engine and the file system can answer a handler.
EngineFindings ==
    {[engine |-> "raised", exists |-> "n/a", reader |-> "n/a"],
     [engine |-> "returned", exists |-> "no", reader |-> "n/a"],
     [engine |-> "returned", exists |-> "yes", reader |-> "n/a"]}

\* Transcript files the engine leaves: ASCII, a CRLF line end, a byte that only
\* iso-8859-1 accepts.
TranscriptFiles == {<<65>>, <<65, 13, 10>>, <<129>>}

\* What the call of read_file_content can do on a file: what the function does
\* on the file's bytes; a UnicodeDecodeError out of a reader that fails every
\* encoding (the reader is replaceable, and the handler has a clause for it);
\* an OSError out of open().
ReaderOutcomes(bytes) ==
    {read_file_content(bytes),
     [kind |-> "raise", exc |-> "UnicodeDecodeError", text |-> <<>>],
     [kind |-> "raise", exc |-> "OSError", text |-> <<>>]}

ReaderTag(read) == IF read.kind = "return" THEN "return" ELSE read.exc

----------------------------------------------------------------------------
(* The server *)

\* The engine call as a suspension point: the loop is free while it runs.
LoopFreeAwaited == TRUE

\* The handlers are "async def" and call the engine synchronously, with no
\* await between the writes of os.environ and the engine's return: while one
\* engine call runs, the event loop runs nothing else.
LoopFree == \A r \in Req : pc[r] # "engine"

\* Sent by its client, and its response not yet written.
InFlight(r) == pc[r] \in {"sent", "authorized", "engine", "responding"}

ServerInit ==
    /\ pc = [r \in Req |-> "idle"]
    /\ req = [r \in Req |-> NoRequest]
    /\ body = [r \in Req |-> NoBody]
    /\ env = [s \in Slots |-> Unset]
    /\ engine_call = [r \in Req |-> NoCall]
    /\ response = [r \in Req |-> NoResponse]
    /\ entered = [r \in Req |-> FALSE]
    /\ observed = [r \in Req |-> NothingObserved]
    /\ writer = [s \in Slots |-> 0]

ReaderIdle == fileBytes = <<>> /\ readResult = NotRead
NormalizeIdle == userRequest = NotNormalized /\ generateRequest = NotNormalized

\* The last writers after request r's handler assigned every slot but the skipped.
Written(r, skipped) == [s \in Slots |-> IF s \in skipped THEN writer[s] ELSE r]

\* The slots generate_podcast_file does not assign.
SkippedPodcast(request) ==
    IF request.elevenlabs_key # "" THEN {} ELSE {"ELEVENLABS_API_KEY"}

\* A client sends a request. Requests are numbered in the order they are sent.
ClientSend(r) ==
    /\ pc[r] = "idle"
    /\ \A q \in Req : q < r => pc[q] # "idle"
    /\ \E e \in Endpoints, k \in ApiKeys :
           req' = [req EXCEPT ![r] = [endpoint |-> e, api_key |-> k]]
    /\ pc' = [pc EXCEPT ![r] = "sent"]
    /\ UNCHANGED <<body, env, engine_call, response, entered, observed, writer>>
    /\ UNCHANGED <<readerVars, normalizeVars>>

\* Depends(get_api_key), on every route but /health.
get_api_key(r) ==
    /\ pc[r] = "sent"
    /\ req[r].endpoint # "/health"
    /\ LoopFree
    /\ IF InvalidApiKey(req[r].api_key)
       THEN /\ response' = [response EXCEPT ![r] =
                   ErrorResponse(HTTPException(401, "Invalid API key", "ApiKey"))]
            /\ pc' = [pc EXCEPT ![r] = "responding"]
       ELSE /\ pc' = [pc EXCEPT ![r] = "authorized"]
            /\ UNCHANGED response
    /\ UNCHANGED <<req, body, env, engine_call, entered, observed, writer>>
    /\ UNCHANGED <<readerVars, normalizeVars>>

\* generate_podcast_file up to its call of generate_podcast.
generate_podcast_file(r) ==
    /\ pc[r] = "authorized"
    /\ req[r].endpoint = "/generate-podcast"
    /\ LoopFree
    /\ \E json \in JsonBodies :
           LET request == ParseUserPodcastRequest(json)
           IN /\ body' = [body EXCEPT ![r] = json]
              /\ env' = SetApiKeysPodcast(env, request)
              /\ writer' = Written(r, SkippedPodcast(request))
              /\ engine_call' = [engine_call EXCEPT ![r] =
                     EngineCall(to_generate_podcast_request(request), FALSE)]
    /\ entered' = [entered EXCEPT ![r] = TRUE]
    /\ pc' = [pc EXCEPT ![r] = "engine"]
    /\ UNCHANGED <<req, response, observed>>
    /\ UNCHANGED <<readerVars, normalizeVars>>

\* generate_podcast_file from the engine's return to the handler's end, where
\* the request object and the call's arguments go out of scope.
generate_podcast_file_return(r) ==
    /\ pc[r] = "engine"
    /\ req[r].endpoint = "/generate-podcast"
    /\ \E found \in EngineFindings :
           /\ observed' = [observed EXCEPT ![r] = found]
           /\ \E resp \in ExceptException(
                              PodcastTryBody(ParseUserPodcastRequest(body[r]), found)) :
                  response' = [response EXCEPT ![r] = resp]
    /\ body' = [body EXCEPT ![r] = NoBody]
    /\ engine_call' = [engine_call EXCEPT ![r] = NoCall]
    /\ pc' = [pc EXCEPT ![r] = "responding"]
    /\ UNCHANGED <<req, env, entered, writer>>
    /\ UNCHANGED <<readerVars, normalizeVars>>

\* generate_transcript up to its call of generate_podcast.
generate_transcript(r) ==
    /\ pc[r] = "authorized"
    /\ req[r].endpoint = "/generate-transcript"
    /\ LoopFree
    /\ \E json \in JsonBodies :
           LET request == ParseUserPodcastRequest(json)
           IN /\ body' = [body EXCEPT ![r] = json]
              /\ env' = SetApiKeysTranscript(env, request)
              /\ writer' = Written(r, {})
              /\ engine_call' = [engine_call EXCEPT ![r] =
                     EngineCall(to_generate_podcast_request(request), TRUE)]
    /\ entered' = [entered EXCEPT ![r] = TRUE]
    /\ pc' = [pc EXCEPT ![r] = "engine"]
    /\ UNCHANGED <<req, response, observed>>
    /\ UNCHANGED <<readerVars, normalizeVars>>

\* generate_transcript from the engine's return to the handler's end.
generate_transcript_return(r) ==
    /\ pc[r] = "engine"
    /\ req[r].endpoint = "/generate-transcript"
    /\ \E found \in EngineFindings, bytes \in TranscriptFiles :
           \E read \in ReaderOutcomes(bytes) :
               LET seen == IF found.exists = "yes"
                           THEN [found EXCEPT !.reader = ReaderTag(read)]
                           ELSE found
               IN /\ observed' = [observed EXCEPT ![r] = seen]
                  /\ \E resp \in ExceptException(TranscriptTryBody(found, read)) :
                         response' = [response EXCEPT ![r] = resp]
    /\ body' = [body EXCEPT ![r] = NoBody]
    /\ engine_call' = [engine_call EXCEPT ![r] = NoCall]
    /\ pc' = [pc EXCEPT ![r] = "responding"]
    /\ UNCHANGED <<req, env, entered, writer>>
    /\ UNCHANGED <<readerVars, normalizeVars>>

\* download_file.
download_file(r) ==
    /\ pc[r] = "authorized"
    /\ req[r].endpoint = "/audio"
    /\ LoopFree
    /\ \E exists \in {"yes", "no"} :
           LET found == [engine |-> "n/a", exists |-> exists, reader |-> "n/a"]
           IN /\ observed' = [observed EXCEPT ![r] = found]
              /\ \E resp \in ExceptException(DownloadTryBody(found)) :
                     response' = [response EXCEPT ![r] = resp]
    /\ entered' = [entered EXCEPT ![r] = TRUE]
    /\ pc' = [pc EXCEPT ![r] = "responding"]
    /\ UNCHANGED <<req, body, env, engine_call, writer>>
    /\ UNCHANGED <<readerVars, normalizeVars>>

\* healthcheck: the route has no dependency.
healthcheck(r) ==
    /\ pc[r] = "sent"
    /\ req[r].endpoint = "/health"
    /\ LoopFree
    /\ response' = [response EXCEPT ![r] = HealthResponse]
    /\ entered' = [entered EXCEPT ![r] = TRUE]
    /\ pc' = [pc EXCEPT ![r] = "responding"]
    /\ UNCHANGED <<req, body, env, engine_call, observed, writer>>
    /\ UNCHANGED <<readerVars, normalizeVars>>

\* The server writes the response to the client; nothing of the request is kept.
SendResponse(r) ==
    /\ pc[r] = "responding"
    /\ LoopFree
    /\ pc' = [pc EXCEPT ![r] = "done"]
    /\ req' = [req EXCEPT ![r] = NoRequest]
    /\ response' = [response EXCEPT ![r] = NoResponse]
    /\ entered' = [entered EXCEPT ![r] = FALSE]
    /\ observed' = [observed EXCEPT ![r] = NothingObserved]
    /\ UNCHANGED <<body, env, engine_call, writer>>
    /\ UNCHANGED <<readerVars, normalizeVars>>

Init == ServerInit /\ ReaderIdle /\ NormalizeIdle

Next ==
    \E r \in Req :
        \/ ClientSend(r)
        \/ get_api_key(r)
        \/ generate_podcast_file(r)
        \/ generate_podcast_file_return(r)
        \/ generate_transcript(r)
        \/ generate_transcript_return(r)
        \/ download_file(r)
        \/ healthcheck(r)
        \/ SendResponse(r)

Spec == Init /\ [][Next]_vars

----------------------------------------------------------------------------
(* read_file_content on the files of FileContents *)

ReadFile ==
    /\ readResult = NotRead
    /\ readResult' = read_file_content(fileBytes)
    /\ UNCHANGED <<fileBytes, serverVars, normalizeVars>>

InitReader ==
    /\ ServerInit
    /\ NormalizeIdle
    /\ fileBytes \in FileContents
    /\ readResult = NotRead

SpecReader == InitReader /\ [][ReadFile]_vars

----------------------------------------------------------------------------
(* to_generate_podcast_request on the requests of UserPodcastRequests *)

Normalize ==
    /\ generateRequest = NotNormalized
    /\ generateRequest' = to_generate_podcast_request(userRequest)
    /\ UNCHANGED <<userRequest, serverVars, readerVars>>

InitNormalize ==
    /\ ServerInit
    /\ ReaderIdle
    /\ userRequest \in UserPodcastRequests
    /\ generateRequest = NotNormalized

SpecNormalize == InitNormalize /\ [][Normalize]_vars

----------------------------------------------------------------------------
(* Claims *)

\* The credential of request r's body that belongs in slot s.
OwnCredential(r, s) ==
    LET request == ParseUserPodcastRequest(body[r])
    IN CASE s = "GEMINI_API_KEY" -> request.google_key
         [] s = "OPENAI_API_KEY" -> request.openai_key
         [] s = "ELEVENLABS_API_KEY" -> request.elevenlabs_key

\* C1: on /generate-podcast, /generate-transcript and /audio, when the file to
\* serve does not exist the response that leaves the handler has status 404.
C1_MissingFileIs404 ==
    \A r \in Req :
        (pc[r] = "responding" /\ entered[r] /\ observed[r].exists = "no")
            => response[r].status = 404

\* C2: with two requests in flight, one request's engine call can run while a
\* credential slot holds the other request's value (C2_Witness is such a
\* state). Whenever a request's engine call runs while a slot holds a value
\* other than the request's own, the slot is ELEVENLABS_API_KEY, the request is
\* a /generate-podcast one with an empty elevenlabs_key, and its handler did
\* not write the slot; GEMINI_API_KEY and OPENAI_API_KEY always hold the
\* running request's values.
C2_ForeignCredentialAtEngine ==
    \A r \in Req :
        pc[r] = "engine" =>
            \A s \in Slots :
                env[s] # OwnCredential(r, s) =>
                    /\ s = "ELEVENLABS_API_KEY"
                    /\ req[r].endpoint = "/generate-podcast"
                    /\ OwnCredential(r, s) = ""
                    /\ writer[s] # r

\* C2: request r's engine call runs while ELEVENLABS_API_KEY holds the key that
\* request q, still in flight, wrote.
C2_Witness ==
    \E r \in Req, q \in Req :
        /\ r # q
        /\ pc[r] = "engine"
        /\ InFlight(q)
        /\ writer["ELEVENLABS_API_KEY"] = q
        /\ env["ELEVENLABS_API_KEY"] \in {"e1", "e2"}
        /\ env["ELEVENLABS_API_KEY"] # OwnCredential(r, "ELEVENLABS_API_KEY")

\* C3 as stated: in both handlers, at the engine call GEMINI_API_KEY and
\* OPENAI_API_KEY hold the request's keys, and ELEVENLABS_API_KEY holds the
\* request's key when it is non-empty and is left unchanged when it is empty.
C3_SlotsSetSkippingAbsentKey ==
    [][\A r \in Req :
          (pc[r] = "authorized" /\ pc'[r] = "engine") =>
              LET c == body'[r].credentials
              IN /\ env'["GEMINI_API_KEY"] = c.google_key
                 /\ env'["OPENAI_API_KEY"] = c.openai_key
                 /\ env'["ELEVENLABS_API_KEY"] =
                        IF c.elevenlabs_key # "" THEN c.elevenlabs_key
                        ELSE env["ELEVENLABS_API_KEY"]]_vars

\* C3, amended: at the engine call GEMINI_API_KEY and OPENAI_API_KEY hold the
\* request's keys in both handlers. /generate-podcast sets ELEVENLABS_API_KEY
\* to the request's key when it is non-empty and leaves the slot unchanged when
\* it is empty; /generate-transcript sets it to the request's key always, the
\* empty one included.
C3_SlotsSetPerHandler ==
    [][\A r \in Req :
          (pc[r] = "authorized" /\ pc'[r] = "engine") =>
              LET c == body'[r].credentials
              IN /\ env'["GEMINI_API_KEY"] = c.google_key
                 /\ env'["OPENAI_API_KEY"] = c.openai_key
                 /\ env'["ELEVENLABS_API_KEY"] =
                        IF c.elevenlabs_key = "" /\ req[r].endpoint = "/generate-podcast"
                        THEN env["ELEVENLABS_API_KEY"]
                        ELSE c.elevenlabs_key]_vars

\* C3: a /generate-transcript request with an empty elevenlabs_key is at its
\* engine call, and its handler wrote the empty key into ELEVENLABS_API_KEY.
C3_Witness ==
    \E r \in Req :
        /\ pc[r] = "engine"
        /\ req[r].endpoint = "/generate-transcript"
        /\ body[r].credentials.elevenlabs_key = ""
        /\ env["ELEVENLABS_API_KEY"] = ""
        /\ writer["ELEVENLABS_API_KEY"] = r

\* C4: while one request's engine call is in progress, another request, such
\* as GET /health, can be handled.
C4_EngineCallYieldsLoop ==
    \A r \in Req, q \in Req :
        (pc[r] = "engine" /\ pc[q] = "sent" /\ req[q].endpoint = "/health")
            => ENABLED healthcheck(q)

\* Whether request r may pass the gate: it targets /health, or its api-key is
\* the pre-shared key.
Allowed(r) == req[r].endpoint = "/health" \/ req[r].api_key = API_KEY

C6_DecodeErrorMessageKept ==
    \A r \in Req :
        (pc[r] = "responding" /\ req[r].endpoint = "/generate-transcript"
         /\ observed[r].reader = "UnicodeDecodeError")
            => /\ response[r].status = 500
               /\ response[r].detail = "Error reading transcript: Unsupported file encoding"

\* The list of encodings as the claim gives it.
ClaimedEncodings == <<"utf-8", "cp1252", "iso-8859-1", "latin1">>

\* The first encoding of the claimed list that accepts the bytes.
FirstAccepting(bs) ==
    CHOOSE k \in 1..Len(ClaimedEncodings) :
        /\ Decode(ClaimedEncodings[k], bs).ok
        /\ \A j \in 1..(k - 1) : ~Decode(ClaimedEncodings[j], bs).ok

\* C7 as stated: read_file_content returns, never raises, the decoding of the
\* file's bytes under the first encoding of utf-8, cp1252, iso-8859-1, latin1
\* that accepts them; valid UTF-8 comes back as exactly that text.
C7_ReturnsFirstDecoding ==
    readResult # NotRead =>
        /\ readResult.kind = "return"
        /\ readResult.text = Decode(ClaimedEncodings[FirstAccepting(fileBytes)], fileBytes).text

\* C7, amended: read_file_content returns, never raises, the decoding of the
\* file's bytes under the first encoding of utf-8, cp1252, iso-8859-1, latin1
\* that accepts them, with every "\r\n" and every other "\r" read as "\n"; the
\* result holds no "\r"; valid UTF-8 text without "\r" (the empty file too)
\* comes back as exactly that text; bytes invalid under UTF-8 are decoded by
\* cp1252 or iso-8859-1.
C7_ReturnsFirstDecodingNewlinesTranslated ==
    readResult # NotRead =>
        LET k == FirstAccepting(fileBytes)
            d == Decode(ClaimedEncodings[k], fileBytes)
            u == DecodeUtf8(fileBytes)
        IN /\ readResult.kind = "return"
           /\ readResult.text = UniversalNewlines(d.text)
           /\ \A i \in 1..Len(readResult.text) : readResult.text[i] # 13
           /\ (u.ok /\ \A i \in 1..Len(u.text) : u.text[i] # 13) => readResult.text = u.text
           /\ fileBytes = <<>> => readResult.text = <<>>
           /\ ~u.ok => k \in {2, 3}

\* C7: a file that neither UTF-8 nor cp1252 accepts, with a "\r" in it, was read.
C7_Witness ==
    /\ readResult.kind = "return"
    /\ ~DecodeUtf8(fileBytes).ok
    /\ ~DecodeCp1252(fileBytes).ok
    /\ \E i \in 1..Len(fileBytes) : fileBytes[i] = 13

\* C8: to_generate_podcast_request follows the mapping table field for field,
\* and image_paths is None whatever the request.
C8_FieldMapping ==
    generateRequest # NotNormalized =>
        LET u == userRequest
            g == generateRequest
            cc == g.conversation_config
            tts == cc.text_to_speech
        IN /\ g.urls = u.urls
           /\ g.text = u.text
           /\ g.tts_model = u.tts_model
           /\ g.longform = u.is_long_form
           /\ g.image_paths = None
           /\ cc.roles_person1 = u.roles_person1
           /\ cc.roles_person2 = u.roles_person2
           /\ cc.podcast_name = u.name
           /\ cc.podcast_tagline = u.tagline
           /\ cc.creativity = u.creativity
           /\ cc.user_instructions = u.user_instructions
           /\ cc.output_language = u.output_language
           /\ tts.voices = u.voices
           /\ tts.engagement_techniques = u.engagement_techniques
           /\ tts.conversation_style = u.conversation_style
           /\ tts.dialogue_structure = u.dialogue_structure
           /\ tts.output_language = u.output_language

\* C8: a long-form request whose name and tagline differ was converted.
C8_Witness ==
    /\ generateRequest # NotNormalized
    /\ userRequest.is_long_form
    /\ userRequest.name # userRequest.tagline
    /\ userRequest.roles_person1 # userRequest.roles_person2
    /\ userRequest.urls # <<>>

\* C9: on /generate-podcast, when the engine succeeds and its output file
\* exists, the response is the audio file with content-disposition type
\* "inline" if the request's stream_output is true and "attachment" if it is
\* false or was omitted.
C9_ContentDisposition ==
    [][\A r \in Req :
          (pc[r] = "engine" /\ pc'[r] = "responding"
           /\ req[r].endpoint = "/generate-podcast"
           /\ observed'[r].engine = "returned" /\ observed'[r].exists = "yes")
              => /\ response'[r].status = 200
                 /\ response'[r].kind = "file"
                 /\ response'[r].disposition =
                        IF body[r].stream_output = "true" THEN "inline" ELSE "attachment"]_vars

\* C9: a /generate-podcast request was answered with the file, inline.
C9_Witness ==
    \E r \in Req :
        /\ pc[r] = "responding"
        /\ req[r].endpoint = "/generate-podcast"
        /\ response[r].status = 200
        /\ response[r].disposition = "inline"

\* C10: requests are handled strictly one after another; at each request's
\* engine call every credential slot holds the value of that request's body
\* (an unset slot holds no key, as an empty elevenlabs_key), never one an
\* earlier request wrote.
C10_NoCredentialOfEarlierRequest ==
    \A r \in Req :
        (pc[r] = "engine" /\ \A q \in Req \ {r} : ~InFlight(q)) =>
            \A s \in Slots :
                \/ env[s] = OwnCredential(r, s)
                \/ (env[s] = Unset /\ OwnCredential(r, s) = "")

====
